---- MODULE Spec2Model ----
(***************************************************************************)
(* objexplore: the node cache (CachedObject), its filter pass and the      *)
(* navigation stack driven by Explorer.process_key_event.                   *)
(*                                                                         *)
(* Python objects are handles into a fixed object graph (World); a         *)
(* CachedObject is a record in `heap`, its identity the index in `heap`.   *)
(* Text (str, rich Text) is a sequence of character codes.                 *)
(***************************************************************************)
EXTENDS Integers, Sequences, FiniteSets, TLC

VARIABLES
    heap,       \* every CachedObject constructed so far; a node's identity is its index
    exc,        \* the exception the last call raised to its caller, "none" when it returned
    last,       \* the last call made: what, on which node, and what held before it
    cached,     \* the nodes on which cache() has returned
    ncalls,     \* the number of calls made on nodes
    status,     \* explore(): "new", "running" (waiting in inkey()), "quit",
                \* "returned", "crashed" (an exception left Explorer.explore)
    res,        \* what process_key_event returned last
    cached_obj,         \* Explorer.cached_obj: a node
    explorer_layout,    \* Explorer.explorer_layout: an index in explorer_layouts
    overview_layout,    \* Explorer.overview_layout: an index in overview_layouts
    stack,              \* Explorer.stack: the StackLayout
    help_layout,        \* Explorer.help_layout
    filter_layout,      \* Explorer.filter_layout
    explorer_layouts,   \* the ExplorerLayout instances a frame refers to
    overview_layouts,   \* the OverviewLayout instances
    event,      \* the key event just handled: the branch taken, the depth before it
    pushed_ui   \* per frame below the tail: the UI state at the push from it

nodevars == <<heap, cached>>
clientvars == <<last, ncalls>>
uivars == <<cached_obj, explorer_layout, overview_layout, stack, help_layout,
            filter_layout, explorer_layouts, overview_layouts>>
explorervars == <<status, res, uivars, event, pushed_ui>>
vars == <<heap, exc, last, cached, ncalls, explorervars>>

\* ------------------------------------------------------------------ bounds
\* The largest number of CachedObject instances a run may construct.
MaxNodes == 11
\* The largest depth of the navigation stack.
MaxDepth == 3
\* The largest number of cache()/set_filters() calls a client makes on nodes.
MaxCalls == 3

\* ------------------------------------------------------------------- text
\* Character codes of the text the model needs.
T_None == <<78, 111, 110, 101>>
T_dot == <<46>>
T_lbracket == <<91>>
T_rbracket == <<93>>
T_quote == <<34>>
T_weakref == <<95, 95, 119, 101, 97, 107, 114, 101, 102, 95, 95>>
T_app == <<97, 112, 112>>
T_C == <<67>>
T_data == <<100, 97, 116, 97>>
T_run == <<114, 117, 110>>
T_n == <<95, 110>>
T_h == <<95, 104>>
T_g == <<95, 103>>
T_get == <<103, 101, 116>>
T_pop == <<112, 111, 112>>
T_m == <<109>>
T_abs == <<95, 97, 98, 115>>
T_x == <<120>>
T_a == <<97>>
T_f == <<102>>
T_repr == <<60, 111, 62>>

\* str.startswith("_")
StartsWithUnderscore(s) == Len(s) > 0 /\ s[1] = 95

\* str(n) for a non-negative int: its decimal digits.
RECURSIVE str_int(_)
str_int(n) ==
    IF n < 10 THEN <<48 + n>> ELSE str_int(n \div 10) \o <<48 + (n % 10)>>

\* a < b for two str (lexicographic order on code points).
RECURSIVE StrLess(_, _)
StrLess(a, b) ==
    IF b = <<>> THEN FALSE
    ELSE IF a = <<>> THEN TRUE
    ELSE IF a[1] # b[1] THEN a[1] < b[1]
    ELSE StrLess(Tail(a), Tail(b))

\* The list `xs` (already sorted) with x inserted behind every element <= x.
RECURSIVE InsertSorted(_, _)
InsertSorted(xs, x) ==
    IF xs = <<>> THEN <<x>>
    ELSE IF StrLess(x, Head(xs)) THEN <<x>> \o xs
    ELSE <<Head(xs)>> \o InsertSorted(Tail(xs), x)

\* sorted(xs) for a list of str.
RECURSIVE sorted(_)
sorted(xs) ==
    IF xs = <<>> THEN <<>> ELSE InsertSorted(sorted(SubSeq(xs, 1, Len(xs) - 1)), xs[Len(xs)])

\* [x for x in xs if Keep(x)]
RECURSIVE SelectNames(_, _)
SelectNames(xs, private) ==
    IF xs = <<>> THEN <<>>
    ELSE IF StartsWithUnderscore(Head(xs)) = private
         THEN <<Head(xs)>> \o SelectNames(Tail(xs), private)
         ELSE SelectNames(Tail(xs), private)

\* list.remove(x): the list without the first occurrence of x.
RECURSIVE list_remove(_, _)
list_remove(xs, x) ==
    IF xs = <<>> THEN <<>>
    ELSE IF Head(xs) = x THEN Tail(xs)
    ELSE <<Head(xs)>> \o list_remove(Tail(xs), x)

InList(xs, x) == \E i \in 1..Len(xs) : xs[i] = x

\* ------------------------------------------------------------ optionals
NoneVal == [some |-> FALSE, v |-> <<>>]
Some(x) == [some |-> TRUE, v |-> x]

\* A dict key or list index: a str, an int, or None.
StrKey(s) == [kt |-> "str", ki |-> 0, ks |-> s]
IntKey(i) == [kt |-> "int", ki |-> i, ks |-> <<>>]
NoneKey == [kt |-> "NoneType", ki |-> 0, ks |-> <<>>]

\* ------------------------------------------------------- python dicts
\* A dict is the sequence of its <<key, value>> items in insertion order.
DictHas(d, k) == \E i \in 1..Len(d) : d[i][1] = k
DictGet(d, k) == d[CHOOSE i \in 1..Len(d) : d[i][1] = k][2]
\* d[k] = v
DictSet(d, k, v) ==
    IF DictHas(d, k)
    THEN [i \in 1..Len(d) |-> IF d[i][1] = k THEN <<k, v>> ELSE d[i]]
    ELSE Append(d, <<k, v>>)
\* del d[k]
RECURSIVE DictDel(_, _)
DictDel(d, k) ==
    IF d = <<>> THEN <<>>
    ELSE IF Head(d)[1] = k THEN Tail(d)
    ELSE <<Head(d)>> \o DictDel(Tail(d), k)
DictKeys(d) == [i \in 1..Len(d) |-> d[i][1]]
DictValues(d) == [i \in 1..Len(d) |-> d[i][2]]

\* ------------------------------------------------------------ the world
\* getattr(obj, name) raises AttributeError for a member that maps to this.
GetattrFails == 0 - 1
\* len(obj): no __len__ (TypeError), or a __len__ that raises another error.
LenTypeError == 0 - 1
LenValueError == 0 - 2

Obj(type, members, items, elems, flags, raises, len) ==
    [type |-> type, members |-> members, items |-> items, elems |-> elems,
     flags |-> flags, raises |-> raises, len |-> len]

\* The objects under inspection, by handle.  members: what dir() lists, in
\* dir()'s order, each with the handle getattr() returns.  items: a dict's
\* items.  elems: the elements of a list, tuple or set.  flags: what
\* callable(), inspect.is*() and is_selectable() answer.  raises: the display
\* fields whose retrieval raises.
World ==
    [h \in 0..12 |->
        CASE h = 0 -> Obj("NoneType", <<>>, <<>>, <<>>, {}, {"source"}, LenTypeError)
          [] h = 1 -> Obj("object",
                         << <<T_weakref, 0>>, <<T_h, 3>>, <<T_n, 4>>, <<T_C, 6>>,
                            <<T_data, 2>>, <<T_run, 3>> >>,
                         <<>>, <<>>, {"selectable"}, {"source"}, LenTypeError)
          [] h = 2 -> Obj("dict", << <<T_get, 10>> >>,
                         << <<StrKey(T_a), 4>>, <<StrKey(T_f), 3>> >>, <<>>,
                         {"selectable"}, {"source"}, 2)
          [] h = 3 -> Obj("function", << <<T_g, 1>> >>, <<>>, <<>>,
                         {"selectable", "callable", "isfunction"}, {}, LenTypeError)
          [] h = 4 -> Obj("int", <<>>, <<>>, <<>>, {"falsy"}, {"source"}, LenTypeError)
          [] h = 5 -> Obj("list", << <<T_pop, 10>> >>, <<>>, <<4, 6, 0>>,
                         {"selectable"}, {"source"}, 3)
          [] h = 6 -> Obj("type", << <<T_abs, GetattrFails>>, <<T_m, 3>> >>, <<>>, <<>>,
                         {"selectable", "callable", "isclass"}, {}, LenTypeError)
          [] h = 7 -> Obj("object", <<>>, <<>>, <<>>, {"selectable"},
                         {"source", "repr"}, LenTypeError)
          [] h = 8 -> Obj("object", << <<T_x, 7>> >>, <<>>, <<>>, {"selectable"},
                         {"source"}, LenTypeError)
          [] h = 9 -> Obj("object", <<>>, <<>>, <<>>, {"selectable"},
                         {"source"}, LenValueError)
          [] h = 11 -> Obj("dict", << <<T_get, 10>> >>,
                          << <<NoneKey, 4>> >>, <<>>,
                          {"selectable"}, {"source"}, 1)
          [] h = 12 -> Obj("object", << <<T_x, 12>> >>, <<>>, <<>>, {"selectable"},
                          {"source"}, LenTypeError)
          [] OTHER -> Obj("builtin_function_or_method", <<>>, <<>>, <<>>,
                         {"callable", "isbuiltin"}, {"source"}, LenTypeError)]

\* dir(obj)
dir(h) == DictKeys(World[h].members)
\* is_selectable(obj)
is_selectable(h) == "selectable" \in World[h].flags
\* repr(obj); the text itself plays no part, only whether producing it raises.
repr(h) == IF h = 0 THEN T_None ELSE T_repr
\* inspect.getdoc(obj) or "None"
getdoc_or_None(h) == IF "hasdoc" \in World[h].flags THEN T_repr ELSE T_None

\* ------------------------------------------------------- CachedObject
\* The active predicates a FilterLayout offers, each a test of the child.
Predicates == <<"callable", "class">>
ApplyFilter(p, node) ==
    IF p = "callable" THEN node.is_callable ELSE node.isclass

NoNode == [obj |-> 0 - 1]

\* CachedObject.__init__'s dotpath (lines 36-55): Some(text), or NoneVal when
\* neither an attribute name nor an index was given.
Dotpath(obj, parent_path, attr_name, index) ==
    IF obj = 0 THEN Some(T_None)
    ELSE IF attr_name.some
    THEN IF ~parent_path.some \/ parent_path.v = <<>>
         THEN Some(attr_name.v)
         ELSE Some(parent_path.v \o T_dot \o attr_name.v)
    ELSE IF index.kt # "NoneType"
    THEN LET repr_index == IF index.kt = "str"
                           THEN T_quote \o index.ks \o T_quote
                           ELSE str_int(index.ki)
         IN IF ~parent_path.some \/ parent_path.v = <<>>
            THEN Some(T_lbracket \o repr_index \o T_rbracket)
            ELSE Some(parent_path.v \o T_lbracket \o repr_index \o T_rbracket)
    ELSE NoneVal

\* The exception CachedObject.__init__ raises for obj, "none" when it returns.
InitRaises(obj, parent_path, attr_name, index) ==
    IF obj # 0 /\ ~attr_name.some /\ index.kt = "NoneType"
    THEN "ValueError: Need to specify an attribute name or an index"
    ELSE IF (~attr_name.some \/ attr_name.v = <<>>) /\ "repr" \in World[obj].raises
    THEN "repr() raised"
    ELSE IF "type" \in World[obj].raises THEN "str(type()) raised"
    ELSE IF "doc" \in World[obj].raises THEN "getdoc() raised"
    ELSE IF "repr" \in World[obj].raises THEN "repr() raised"
    ELSE IF World[obj].len = LenValueError THEN "len() raised ValueError"
    ELSE "none"

\* dir(obj) as it is, the weak-reference slot included.
PlainAttrsWithWeakref(obj) == dir(obj)

\* The plain_attrs of lines 34 and 71-73.
PlainAttrs(obj) ==
    IF InList(dir(obj), T_weakref) THEN list_remove(dir(obj), T_weakref) ELSE dir(obj)

\* Lines 31-113 for a constructor call that raises `raised` ("none": it returns).
NewCachedObject(raised, obj, dotpath, attr_name) ==
    IF raised # "none" THEN [exc |-> raised, node |-> NoNode]
    ELSE [exc |-> "none", node |->
        [obj |-> obj,
         is_callable |-> "callable" \in World[obj].flags,
         dotpath |-> dotpath.v,
         attr_name |-> IF attr_name.some /\ attr_name.v # <<>> THEN attr_name.v ELSE repr(obj),
         typeof |-> World[obj].type,
         docstring |-> getdoc_or_None(obj),
         plain_public_attributes |-> sorted(SelectNames(PlainAttrs(obj), FALSE)),
         plain_private_attributes |-> sorted(SelectNames(PlainAttrs(obj), TRUE)),
         public_attributes |-> <<>>,
         private_attributes |-> <<>>,
         filtered_public_attributes |-> <<>>,
         filtered_private_attributes |-> <<>>,
         filtered_public_is_public |-> FALSE,
         filtered_private_is_private |-> FALSE,
         cached_dict |-> <<>>,
         cached_list |-> <<>>,
         filtered_dict |-> <<>>,
         filtered_list |-> <<>>,
         source |-> IF "source" \in World[obj].raises THEN <<>> ELSE T_repr,
         length |-> IF World[obj].len = LenTypeError THEN NoneVal
                    ELSE Some(str_int(World[obj].len)),
         isclass |-> "isclass" \in World[obj].flags,
         isfunction |-> "isfunction" \in World[obj].flags,
         isbuiltin |-> "isbuiltin" \in World[obj].flags,
         filters |-> <<>>]]

\* CachedObject(obj, parent_path, attr_name, index): the new instance, or the
\* exception the constructor raises.
CachedObject(obj, parent_path, attr_name, index) ==
    NewCachedObject(InitRaises(obj, parent_path, attr_name, index), obj,
                    Dotpath(obj, parent_path, attr_name, index), attr_name)

\* ------------------------------------------------- CachedObject.filter
\* A child is kept only when every active filter accepts it.
KeepAll(filters, node) == \A i \in 1..Len(filters) : ApplyFilter(filters[i], node)

\* `for _filter in self.filters: if _filter(cached_obj): ...; break`:
\* the child is kept when some active filter accepts it.
KeepAny(filters, node) == \E i \in 1..Len(filters) : ApplyFilter(filters[i], node)

\* The kept items, each put in front of those kept before it.
RECURSIVE FilterAttributesReversed(_, _, _)
FilterAttributesReversed(hp, attrs, filters) ==
    IF attrs = <<>> THEN <<>>
    ELSE IF KeepAny(filters, hp[Head(attrs)[2]])
         THEN FilterAttributesReversed(hp, Tail(attrs), filters) \o <<Head(attrs)>>
         ELSE FilterAttributesReversed(hp, Tail(attrs), filters)

\* The loop of lines 152-157 (163-168, 221-225): the items of `attrs` whose
\* child a filter accepts.
RECURSIVE FilterAttributes(_, _, _)
FilterAttributes(hp, attrs, filters) ==
    IF attrs = <<>> THEN <<>>
    ELSE IF KeepAny(filters, hp[Head(attrs)[2]])
         THEN <<Head(attrs)>> \o FilterAttributes(hp, Tail(attrs), filters)
         ELSE FilterAttributes(hp, Tail(attrs), filters)

\* The loop of lines 172-193: one new CachedObject per item of the dict, put
\* in filtered_dict under its key; stops at the first constructor that raises.
RECURSIVE BuildFilteredDict(_, _, _, _)
RECURSIVE PutFilteredDict(_, _, _, _, _)
BuildFilteredDict(hp, n, items, acc) ==
    IF items = <<>> THEN [heap |-> hp, exc |-> "none", view |-> acc]
    ELSE PutFilteredDict(hp, n, items, acc,
            CachedObject(Head(items)[2], Some(hp[n].dotpath), NoneVal, Head(items)[1]))
\* Lines 191-193 for the constructor's outcome r.
PutFilteredDict(hp, n, items, acc, r) ==
    IF r.exc # "none" THEN [heap |-> hp, exc |-> r.exc, view |-> acc]
    ELSE BuildFilteredDict(Append(hp, r.node), n, Tail(items),
                           DictSet(acc, Head(items)[1], Len(hp) + 1))

\* The loop of lines 195-201 over filtered_dict.copy().
RECURSIVE PruneFilteredDict(_, _, _, _)
PruneFilteredDict(hp, copy, filters, acc) ==
    IF copy = <<>> THEN acc
    ELSE IF KeepAny(filters, hp[Head(copy)[2]])
         THEN PruneFilteredDict(hp, Tail(copy), filters,
                                DictSet(acc, Head(copy)[1], Head(copy)[2]))
         ELSE PruneFilteredDict(hp, Tail(copy), filters, DictDel(acc, Head(copy)[1]))

\* The loop of lines 206-218: one new CachedObject per element, by index.
RECURSIVE BuildFilteredList(_, _, _, _, _)
RECURSIVE PutFilteredList(_, _, _, _, _, _)
BuildFilteredList(hp, n, elems, index, acc) ==
    IF elems = <<>> THEN [heap |-> hp, exc |-> "none", view |-> acc]
    ELSE PutFilteredList(hp, n, elems, index, acc,
            CachedObject(Head(elems), Some(hp[n].dotpath), NoneVal, IntKey(index)))
\* Lines 216-218 for the constructor's outcome r.
PutFilteredList(hp, n, elems, index, acc, r) ==
    IF r.exc # "none" THEN [heap |-> hp, exc |-> r.exc, view |-> acc]
    ELSE BuildFilteredList(Append(hp, r.node), n, Tail(elems), index + 1,
                           Append(acc, <<IntKey(index), Len(hp) + 1>>))

\* The member views are rebuilt only while a filter is active: with none
\* they stay what the last filter left.
FilterMembersWhenFiltering(hp, n) ==
    IF hp[n].filters = <<>> THEN hp
    ELSE [hp EXCEPT ![n].filtered_public_attributes =
                        FilterAttributes(hp, hp[n].public_attributes, hp[n].filters),
                    ![n].filtered_public_is_public = FALSE,
                    ![n].filtered_private_attributes =
                        FilterAttributes(hp, hp[n].private_attributes, hp[n].filters),
                    ![n].filtered_private_is_private = FALSE]

\* Lines 148-168: the two member views.  With no filter the view is the
\* member dict itself (the same object), otherwise a new dict.
FilterMembers(hp, n) ==
    IF hp[n].filters = <<>>
    THEN [hp EXCEPT ![n].filtered_public_attributes = <<>>,
                    ![n].filtered_public_is_public = TRUE,
                    ![n].filtered_private_attributes = <<>>,
                    ![n].filtered_private_is_private = TRUE]
    ELSE [hp EXCEPT ![n].filtered_public_attributes =
                        FilterAttributes(hp, hp[n].public_attributes, hp[n].filters),
                    ![n].filtered_public_is_public = FALSE,
                    ![n].filtered_private_attributes =
                        FilterAttributes(hp, hp[n].private_attributes, hp[n].filters),
                    ![n].filtered_private_is_private = FALSE]

\* Lines 194-201 after the build b: filtered_dict is what the build left,
\* pruned when filters are active.
StoreFilteredDict(b, n, filters) ==
    [heap |-> [b.heap EXCEPT ![n].filtered_dict =
                  IF b.exc = "none" /\ filters # <<>>
                  THEN PruneFilteredDict(b.heap, b.view, filters, b.view)
                  ELSE b.view],
     exc |-> b.exc]

\* Lines 170-201: filtered_dict.
FilterDict(hp, n) ==
    IF World[hp[n].obj].type # "dict"
    THEN [heap |-> [hp EXCEPT ![n].filtered_dict = <<>>], exc |-> "none"]
    ELSE StoreFilteredDict(BuildFilteredDict(hp, n, World[hp[n].obj].items, <<>>),
                           n, hp[n].filters)

\* Lines 219-226 after the build b.
StoreFilteredList(b, n, filters) ==
    [heap |-> [b.heap EXCEPT ![n].filtered_list =
                  IF b.exc = "none" /\ filters # <<>>
                  THEN FilterAttributes(b.heap, b.view, filters)
                  ELSE b.view],
     exc |-> b.exc]

\* Lines 203-226: filtered_list.
FilterList(hp, n) ==
    IF World[hp[n].obj].type \notin {"list", "tuple", "set"}
    THEN [heap |-> [hp EXCEPT ![n].filtered_list = <<>>], exc |-> "none"]
    ELSE StoreFilteredList(BuildFilteredList(hp, n, World[hp[n].obj].elems, 0, <<>>),
                           n, hp[n].filters)

\* Lines 203-226 run only when lines 170-201 (outcome d) did not raise.
ThenFilterList(d, n) == IF d.exc # "none" THEN d ELSE FilterList(d.heap, n)

\* CachedObject.filter(): the heap after it, and the exception it raises.
Filter(hp, n) == ThenFilterList(FilterDict(FilterMembers(hp, n), n), n)

\* The filters set on every node, the views of n computed.
SetFiltersOnAll(hp, n, filters) ==
    Filter([m \in 1..Len(hp) |-> [hp[m] EXCEPT !.filters = filters]], n)

\* CachedObject.set_filters(filters)
SetFilters(hp, n, filters) == Filter([hp EXCEPT ![n].filters = filters], n)

\* -------------------------------------------------- CachedObject.cache
\* The loop of lines 126-131 (134-139) over the names still to fetch.
RECURSIVE CacheAttributes(_, _, _, _)
RECURSIVE PutAttribute(_, _, _, _, _)
CacheAttributes(hp, n, names, private) ==
    IF names = <<>> THEN [heap |-> hp, exc |-> "none"]
    ELSE IF DictGet(World[hp[n].obj].members, Head(names)) = GetattrFails
    THEN [heap |-> hp, exc |-> "AttributeError"]
    ELSE PutAttribute(hp, n, names, private,
            CachedObject(DictGet(World[hp[n].obj].members, Head(names)),
                         Some(hp[n].dotpath), Some(Head(names)), NoneKey))
\* Lines 127-131 (135-139) for the constructor's outcome r.
PutAttribute(hp, n, names, private, r) ==
    IF r.exc # "none" THEN [heap |-> hp, exc |-> r.exc]
    ELSE CacheAttributes(
            IF private
            THEN [Append(hp, r.node) EXCEPT
                    ![n].private_attributes = DictSet(@, Head(names), Len(hp) + 1)]
            ELSE [Append(hp, r.node) EXCEPT
                    ![n].public_attributes = DictSet(@, Head(names), Len(hp) + 1)],
            n, Tail(names), private)

\* The public members fetched whether or not they are cached.
CachePublicAgain(hp, n) == CacheAttributes(hp, n, hp[n].plain_public_attributes, FALSE)

\* Lines 125-131: the public members, when none is cached yet.
CachePublic(hp, n) ==
    IF hp[n].public_attributes = <<>>
    THEN CacheAttributes(hp, n, hp[n].plain_public_attributes, FALSE)
    ELSE [heap |-> hp, exc |-> "none"]

\* Lines 133-139 after lines 125-131 (outcome a): the private members, when
\* none is cached yet.
CachePrivate(a, n) ==
    IF a.exc # "none" THEN a
    ELSE IF a.heap[n].private_attributes = <<>>
    THEN CacheAttributes(a.heap, n, a.heap[n].plain_private_attributes, TRUE)
    ELSE a

\* Line 141 after the member loops (outcome b).
ThenFilter(b, n) == IF b.exc # "none" THEN b ELSE Filter(b.heap, n)

\* cache() run on each of the children `kids` in turn, after outcome a.
RECURSIVE CacheEach(_, _)
CacheEach(a, kids) ==
    IF a.exc # "none" \/ kids = <<>> THEN a
    ELSE CacheEach(ThenFilter(CachePrivate(CachePublic(a.heap, Head(kids)[2]),
                                           Head(kids)[2]), Head(kids)[2]),
                   Tail(kids))

\* A cache pass that goes one level further: the public members of n are
\* cached too.
CacheTwoLevels(hp, n) ==
    CacheEach(ThenFilter(CachePrivate(CachePublic(hp, n), n), n),
              CachePublic(hp, n).heap[n].public_attributes)

\* CachedObject.cache(): the heap after it, and the exception it raises.
Cache(hp, n) == ThenFilter(CachePrivate(CachePublic(hp, n), n), n)

\* The views as a reader of the attributes sees them.
FilteredPublic(node) ==
    IF node.filtered_public_is_public THEN node.public_attributes
    ELSE node.filtered_public_attributes
FilteredPrivate(node) ==
    IF node.filtered_private_is_private THEN node.private_attributes
    ELSE node.filtered_private_attributes

\* ---------------------------------------------- a client of CachedObject
\* The objects a client wraps in a root node.
Roots == {1, 2, 5, 6, 7, 8, 9, 11, 12}
\* The filter lists a client sets.
FilterLists ==
    {<<>>, <<"callable">>, <<"class">>, <<"callable", "class">>, <<"class", "callable">>}

NoCall == [op |-> "none", n |-> 0, was_cached |-> FALSE, filters_before |-> <<>>,
           len_before |-> 0]
NoEvent == [what |-> "none", depth |-> 0]

\* No Explorer exists.
NoExplorer ==
    /\ status = "off"
    /\ res = NoneVal
    /\ cached_obj = 0
    /\ explorer_layout = 0
    /\ overview_layout = 0
    /\ stack = [frames |-> <<>>, index |-> 0, visible |-> FALSE]
    /\ help_layout = [visible |-> FALSE, state |-> "keybindings"]
    /\ filter_layout = [visible |-> FALSE, index |-> 0, active |-> <<>>]
    /\ explorer_layouts = <<>>
    /\ overview_layouts = <<>>
    /\ event = NoEvent
    /\ pushed_ui = <<>>

NodeInit ==
    /\ heap = <<>>
    /\ exc = "none"
    /\ last = NoCall
    /\ cached = {}
    /\ ncalls = 0
    /\ NoExplorer

\* A call on node n that ended as r: the heap it left and what it raised.
Called(op, n, r) ==
    /\ ncalls < MaxCalls
    /\ Len(r.heap) <= MaxNodes
    /\ heap' = r.heap
    /\ exc' = r.exc
    /\ cached' = IF op = "cache" /\ r.exc = "none" THEN cached \cup {n} ELSE cached
    /\ last' = [op |-> op, n |-> n, was_cached |-> n \in cached,
                filters_before |-> heap[n].filters, len_before |-> Len(heap)]
    /\ ncalls' = ncalls + 1
    /\ UNCHANGED explorervars

\* The constructor call of Explorer.__init__, line 35, that ended as r.
Created(h, r) ==
    /\ heap = <<>>
    /\ last.op = "none"
    /\ heap' = IF r.exc = "none" THEN <<r.node>> ELSE heap
    /\ exc' = r.exc
    /\ last' = [NoCall EXCEPT !.op = "create", !.n = h]
    /\ UNCHANGED <<cached, ncalls, explorervars>>

\* CachedObject(obj, attr_name=name)
CreateRoot(h) == Created(h, CachedObject(h, NoneVal, Some(T_app), NoneKey))

\* node.cache()
CallCache(n) == Called("cache", n, Cache(heap, n))

\* node.set_filters(filters)
CallSetFilters(n, filters) == Called("set_filters", n, SetFilters(heap, n, filters))

NodeNext ==
    \/ \E h \in Roots : CreateRoot(h)
    \/ \E n \in 1..Len(heap) : CallCache(n)
    \/ \E n \in 1..Len(heap) : \E filters \in FilterLists : CallSetFilters(n, filters)

SpecNode == NodeInit /\ [][NodeNext]_vars

\* --------------------------------------------------- the layouts
\* ExplorerLayout(cached_obj=node): cursor on the first entry of the public view.
NewExplorerLayout(node) == [cached_obj |-> node, state |-> "public", index |-> 0]
\* OverviewLayout(): lines 22-26 of overview_layout.py.
NewOverviewLayout == [state |-> "all", preview_state |-> "repr"]
\* StackFrame(cached_obj, explorer_layout, overview_layout)
StackFrame(node, el, ol) == [cached_obj |-> node, explorer_layout |-> el, overview_layout |-> ol]

\* The collection an ExplorerLayout shows: <<key, child>> pairs.
ActiveCollection(hp, lay) ==
    CASE lay.state = "public" -> FilteredPublic(hp[lay.cached_obj])
      [] lay.state = "private" -> FilteredPrivate(hp[lay.cached_obj])
      [] lay.state = "dict" -> hp[lay.cached_obj].filtered_dict
      [] OTHER -> hp[lay.cached_obj].filtered_list
\* ExplorerLayout.selected_object raises when the cursor is on no entry.
SelectedRaises(hp, lay) == lay.index >= Len(ActiveCollection(hp, lay))
\* ExplorerLayout.selected_object: the child under the cursor.
SelectedObject(hp, lay) == ActiveCollection(hp, lay)[lay.index + 1][2]

\* ExplorerLayout.move_up / move_down / move_top / move_bottom
LayoutMoveUp(lay) == [lay EXCEPT !.index = IF @ > 0 THEN @ - 1 ELSE @]
LayoutMoveDown(hp, lay) ==
    [lay EXCEPT !.index = IF @ + 1 < Len(ActiveCollection(hp, lay)) THEN @ + 1 ELSE @]
LayoutMoveTop(lay) == [lay EXCEPT !.index = 0]
LayoutMoveBottom(hp, lay) ==
    [lay EXCEPT !.index = IF Len(ActiveCollection(hp, lay)) > 0
                          THEN Len(ActiveCollection(hp, lay)) - 1 ELSE @]

\* StackLayout.move_up / move_down / set_visible / pop / select
StackMoveUp(st) == [st EXCEPT !.index = IF @ > 0 THEN @ - 1 ELSE @]
StackMoveDown(st) == [st EXCEPT !.index = IF @ + 1 < Len(st.frames) THEN @ + 1 ELSE @]
StackSetVisible(st) == [st EXCEPT !.visible = TRUE, !.index = Len(st.frames) - 1]
\* pop() leaves the root frame in place.
StackPop(st) ==
    IF Len(st.frames) > 1
    THEN [st EXCEPT !.frames = SubSeq(@, 1, Len(@) - 1),
                    !.index = IF @ > Len(st.frames) - 2 THEN Len(st.frames) - 2 ELSE @]
    ELSE st
\* select() cuts the stack below the chosen frame, whose node the caller
\* pushes again (lines 173-182).
StackSelect(st) == [st EXCEPT !.frames = SubSeq(@, 1, st.index)]

\* FilterLayout.move_up / move_down / toggle / clear_filters
FilterMoveUp(fl) == [fl EXCEPT !.index = IF @ > 0 THEN @ - 1 ELSE @]
FilterMoveDown(fl) == [fl EXCEPT !.index = IF @ + 1 < Len(Predicates) THEN @ + 1 ELSE @]
FilterToggled(fl) ==
    [fl EXCEPT !.active = IF InList(@, Predicates[fl.index + 1])
                          THEN list_remove(@, Predicates[fl.index + 1])
                          ELSE Append(@, Predicates[fl.index + 1])]
FilterCleared(fl) == [fl EXCEPT !.active = <<>>]

\* ----------------------------------------------------------- Explorer
\* The keys a user presses; KEY_* are blessed's key codes.
Keys ==
    {"b", "?", "KEY_ESCAPE", "f", "{", "}", "[", "]", "j", "k", "o", "n",
     "KEY_UP", "KEY_DOWN", "\n", " ", "l", "KEY_RIGHT", "h", "KEY_LEFT",
     "g", "G", "c", "d", "p", "H", "i", "I", "r", "q", "Q", "x"}
\* Lines 126-131: with the help page open these close it and go on.
HelpPassKeys == {"j", "k", "o", "n", "KEY_UP", "KEY_DOWN"}
\* The keys the help page handles itself (lines 106-124).
HelpOwnKeys == {"?", "KEY_ESCAPE", "f", "{", "}", "[", "]"}
\* The keys no branch of process_key_event tests.
UnboundKeys == {"x", "q", "Q"}

\* The UI state of the current frame: cursor, collection, preview mode.
CurrentUI ==
    [index |-> explorer_layouts[explorer_layout].index,
     state |-> explorer_layouts[explorer_layout].state,
     preview_state |-> overview_layouts[overview_layout].preview_state]

Init ==
    /\ heap = <<>>
    /\ exc = "none"
    /\ last = NoCall
    /\ cached = {}
    /\ ncalls = 0
    /\ status = "new"
    /\ res = NoneVal
    /\ cached_obj = 0
    /\ explorer_layout = 0
    /\ overview_layout = 0
    /\ stack = [frames |-> <<>>, index |-> 0, visible |-> FALSE]
    /\ help_layout = [visible |-> FALSE, state |-> "keybindings"]
    /\ filter_layout = [visible |-> FALSE, index |-> 0, active |-> <<>>]
    /\ explorer_layouts = <<>>
    /\ overview_layouts = <<>>
    /\ event = NoEvent
    /\ pushed_ui = <<>>

\* Explorer.draw() (lines 335-356) raises when get_overview_layout (line 330)
\* asks for a selected object the cursor is not on.
DrawRaises ==
    /\ ~help_layout.visible
    /\ SelectedRaises(heap, explorer_layouts[explorer_layout])

\* Lines 75-76: the loop draws and waits for the next key.
Draw ==
    /\ status = "handled"
    /\ status' = IF DrawRaises THEN "crashed" ELSE "running"
    /\ exc' = IF DrawRaises THEN "IndexError" ELSE "none"
    /\ event' = NoEvent
    /\ UNCHANGED <<nodevars, clientvars, uivars, res, pushed_ui>>

\* Lines 73-81 after process_key_event returned None: the loop ends on q or
\* Q (line 73) and otherwise goes on to draw.
Redraw(key) ==
    /\ res' = NoneVal
    /\ status' = IF key \in {"q", "Q"} THEN "quit" ELSE "handled"
    /\ exc' = "none"

\* An exception leaves explore(obj) unreported.
CrashPropagates(raised) ==
    /\ res' = NoneVal
    /\ status' = "raised"
    /\ exc' = raised

\* An exception leaves process_key_event, Explorer.explore and is reported
\* by explore() (lines 374-386).
Crash(raised) ==
    /\ res' = NoneVal
    /\ status' = "crashed"
    /\ exc' = raised

Noted(what) ==
    event' = [what |-> what, depth |-> Len(stack.frames)]

\* The cache pass of Explorer.__init__ (line 37) on the root the
\* constructor call r made.
InitCache(r) ==
    IF r.exc # "none" THEN [heap |-> <<>>, exc |-> r.exc] ELSE Cache(<<r.node>>, 1)

\* Explorer.__init__ whose cache pass ended as r.
Constructed(r) ==
    /\ status = "new"
    /\ Len(r.heap) <= MaxNodes
    /\ heap' = r.heap
    /\ cached' = IF r.exc = "none" THEN {1} ELSE {}
    /\ event' = [NoEvent EXCEPT !.what = "init"]
    /\ UNCHANGED <<clientvars, pushed_ui>>
    /\ IF r.exc # "none"
       THEN Crash(r.exc) /\ UNCHANGED uivars
       ELSE /\ cached_obj' = 1
            /\ explorer_layouts' = <<NewExplorerLayout(1)>>
            /\ explorer_layout' = 1
            /\ overview_layouts' = <<NewOverviewLayout>>
            /\ overview_layout' = 1
            /\ stack' = [frames |-> <<StackFrame(1, 1, 1)>>, index |-> 0, visible |-> FALSE]
            /\ help_layout' = [visible |-> FALSE, state |-> "keybindings"]
            /\ filter_layout' = [visible |-> FALSE, index |-> 0, active |-> <<>>]
            /\ Redraw("")

\* explore(obj): Explorer(obj, name), up to the first turn of the loop.
Explore(h) == Constructed(InitCache(CachedObject(h, NoneVal, Some(T_app), NoneKey)))

\* While explore() waits for a key the cursor is on an entry: the draw before
\* (line 75) asked for the selected object, or the help page has been open
\* since a draw that did, and no key it lets through moves the cursor off.
CursorOnEntry ==
    status = "running" => ~SelectedRaises(heap, explorer_layouts[explorer_layout])

\* Lines 104-138 let the key through to the branches below: the help page
\* is closed, or the key closes it and goes on.
Passes(key) == status = "running" /\ (~help_layout.visible \/ key \in HelpPassKeys)
HelpClosed == help_layout' = [help_layout EXCEPT !.visible = FALSE]

\* Lines 98-100: the debugger key.
KeyBreakpoint(key) ==
    /\ status = "running" /\ key = "b"
    /\ UNCHANGED <<nodevars, clientvars, uivars, pushed_ui>>
    /\ Noted("breakpoint") /\ Redraw(key)

\* Lines 106-108: close the help page.
HelpClose(key) ==
    /\ status = "running" /\ help_layout.visible /\ key \in {"?", "KEY_ESCAPE"}
    /\ help_layout' = [help_layout EXCEPT !.visible = FALSE]
    /\ UNCHANGED <<nodevars, clientvars, pushed_ui, cached_obj, explorer_layout,
                   overview_layout, stack, filter_layout, explorer_layouts, overview_layouts>>
    /\ Noted("help_close") /\ Redraw(key)

\* Lines 111-124: the help page in the pager, or its other pane.
HelpOwnKey(key) ==
    /\ status = "running" /\ help_layout.visible /\ key \in {"f", "{", "}", "[", "]"}
    /\ help_layout' = IF key = "f" THEN help_layout
                      ELSE [help_layout EXCEPT
                              !.state = IF @ = "keybindings" THEN "about" ELSE "keybindings"]
    /\ UNCHANGED <<nodevars, clientvars, pushed_ui, cached_obj, explorer_layout,
                   overview_layout, stack, filter_layout, explorer_layouts, overview_layouts>>
    /\ Noted("help_own") /\ Redraw(key)

\* A key the help page does not know closes it.
HelpIgnoresCloses(key) ==
    /\ status = "running" /\ help_layout.visible
    /\ key \notin HelpOwnKeys \cup HelpPassKeys \cup {"b"}
    /\ HelpClosed
    /\ UNCHANGED <<nodevars, clientvars, pushed_ui, cached_obj, explorer_layout,
                   overview_layout, stack, filter_layout, explorer_layouts, overview_layouts>>
    /\ Noted("help_ignored") /\ Redraw(key)

\* Lines 133-134: any other key does nothing while the help page is open.
HelpIgnores(key) ==
    /\ status = "running" /\ help_layout.visible
    /\ key \notin HelpOwnKeys \cup HelpPassKeys \cup {"b"}
    /\ UNCHANGED <<nodevars, clientvars, uivars, pushed_ui>>
    /\ Noted("help_ignored") /\ Redraw(key)

\* Lines 136-138: open the help page.
HelpOpen(key) ==
    /\ status = "running" /\ ~help_layout.visible /\ key = "?"
    /\ help_layout' = [help_layout EXCEPT !.visible = TRUE]
    /\ UNCHANGED <<nodevars, clientvars, pushed_ui, cached_obj, explorer_layout,
                   overview_layout, stack, filter_layout, explorer_layouts, overview_layouts>>
    /\ Noted("help_open") /\ Redraw(key)

\* Lines 142-156: move the cursor of the view that has the focus.
MoveCursor(key) ==
    /\ Passes(key) /\ key \in {"k", "KEY_UP", "j", "KEY_DOWN"}
    /\ HelpClosed
    /\ IF stack.visible
       THEN /\ stack' = IF key \in {"k", "KEY_UP"} THEN StackMoveUp(stack)
                        ELSE StackMoveDown(stack)
            /\ UNCHANGED <<filter_layout, explorer_layouts>>
       ELSE IF filter_layout.visible
       THEN /\ filter_layout' = IF key \in {"k", "KEY_UP"} THEN FilterMoveUp(filter_layout)
                                ELSE FilterMoveDown(filter_layout)
            /\ UNCHANGED <<stack, explorer_layouts>>
       ELSE /\ explorer_layouts' =
                  [explorer_layouts EXCEPT ![explorer_layout] =
                      IF key \in {"k", "KEY_UP"} THEN LayoutMoveUp(@)
                      ELSE LayoutMoveDown(heap, @)]
            /\ UNCHANGED <<stack, filter_layout>>
    /\ UNCHANGED <<nodevars, clientvars, pushed_ui, cached_obj, explorer_layout,
                   overview_layout, overview_layouts>>
    /\ Noted("move") /\ Redraw(key)

\* A set_filters call of the filter view on the current node ended as r.
FiltersSet(key, what, fl, r) ==
    /\ Len(r.heap) <= MaxNodes
    /\ heap' = r.heap
    /\ filter_layout' = fl
    /\ HelpClosed
    /\ UNCHANGED <<cached, clientvars, pushed_ui, cached_obj, explorer_layout,
                   overview_layout, stack, explorer_layouts, overview_layouts>>
    /\ Noted(what)
    /\ IF r.exc # "none" THEN Crash(r.exc) ELSE Redraw(key)

\* Lines 158-159: toggle the predicate under the filter view's cursor.
FilterToggle(key) ==
    /\ Passes(key) /\ key \in {"\n", " "} /\ filter_layout.visible
    /\ FiltersSet(key, "filter_toggle", FilterToggled(filter_layout),
                  SetFilters(heap, cached_obj, FilterToggled(filter_layout).active))

\* Lines 217-218: clear the predicates.
FilterClear(key) ==
    /\ Passes(key) /\ key = "c" /\ filter_layout.visible
    /\ FiltersSet(key, "filter_clear", FilterCleared(filter_layout),
                  SetFilters(heap, cached_obj, <<>>))

\* The keys of line 161 that reach it (line 158 takes Enter and Space
\* while the filter view is open).
PushKey(key) ==
    /\ Passes(key) /\ key \in {"\n", "l", " ", "KEY_RIGHT"}
    /\ ~(key \in {"\n", " "} /\ filter_layout.visible)

\* Choosing the current node's frame closes the history view.
StackSelectCurrentHides(key) ==
    /\ PushKey(key) /\ stack.visible
    /\ stack.frames[stack.index + 1].cached_obj = cached_obj
    /\ HelpClosed
    /\ stack' = [stack EXCEPT !.visible = FALSE]
    /\ UNCHANGED <<nodevars, clientvars, pushed_ui, cached_obj, explorer_layout,
                   overview_layout, filter_layout, explorer_layouts, overview_layouts>>
    /\ Noted("select_current") /\ Redraw(key)

\* Lines 163-166: the history view's cursor is on the current node's frame.
StackSelectCurrent(key) ==
    /\ PushKey(key) /\ stack.visible
    /\ stack.frames[stack.index + 1].cached_obj = cached_obj
    /\ HelpClosed
    /\ UNCHANGED <<nodevars, clientvars, pushed_ui, cached_obj, explorer_layout,
                   overview_layout, stack, filter_layout, explorer_layouts, overview_layouts>>
    /\ Noted("select_current") /\ Redraw(key)

\* Lines 173-182 for the node `new`, on the stack st, the cache pass ending as r.
Entered(key, what, new, st, r) ==
    /\ Len(r.heap) <= MaxNodes
    /\ Len(st.frames) < MaxDepth
    /\ explorer_layouts' = Append(SubSeq(explorer_layouts, 1, Len(st.frames)),
                                  NewExplorerLayout(new))
    /\ explorer_layout' = Len(st.frames) + 1
    /\ cached_obj' = new
    /\ heap' = r.heap
    /\ cached' = IF r.exc = "none" THEN cached \cup {new} ELSE cached
    /\ HelpClosed
    /\ UNCHANGED <<clientvars, overview_layout, filter_layout, overview_layouts>>
    /\ Noted(what)
    /\ pushed_ui' = IF what = "jump"
                    THEN SubSeq(pushed_ui, 1, Len(st.frames) - 1)
                            \o (IF st.frames = <<>> THEN <<>> ELSE <<NoneVal>>)
                    ELSE Append(pushed_ui, Some(CurrentUI))
    /\ IF r.exc # "none"
       THEN Crash(r.exc) /\ stack' = st
       ELSE /\ stack' = [st EXCEPT !.frames =
                            Append(@, StackFrame(new, Len(st.frames) + 1, overview_layout))]
            /\ Redraw(key)

\* Lines 163-182: the history view's cursor is on another frame.
StackJump(key) ==
    /\ PushKey(key) /\ stack.visible
    /\ stack.frames[stack.index + 1].cached_obj # cached_obj
    /\ Entered(key, "jump", stack.frames[stack.index + 1].cached_obj, StackSelect(stack),
               Cache(heap, stack.frames[stack.index + 1].cached_obj))

\* The selected object is entered whether or not it is selectable.
PushRefusedEnters(key) ==
    /\ PushKey(key) /\ ~stack.visible
    /\ ~is_selectable(heap[SelectedObject(heap, explorer_layouts[explorer_layout])].obj)
    /\ Entered(key, "push_refused", SelectedObject(heap, explorer_layouts[explorer_layout]),
               stack, Cache(heap, SelectedObject(heap, explorer_layouts[explorer_layout])))

\* Lines 169-171: the selected object is not selectable.
PushRefused(key) ==
    /\ PushKey(key) /\ ~stack.visible
    /\ ~is_selectable(heap[SelectedObject(heap, explorer_layouts[explorer_layout])].obj)
    /\ HelpClosed
    /\ UNCHANGED <<nodevars, clientvars, pushed_ui, cached_obj, explorer_layout,
                   overview_layout, stack, filter_layout, explorer_layouts, overview_layouts>>
    /\ Noted("push_refused") /\ Redraw(key)

\* Lines 169-182: drill into the selected child.
Push(key) ==
    /\ PushKey(key) /\ ~stack.visible
    /\ is_selectable(heap[SelectedObject(heap, explorer_layouts[explorer_layout])].obj)
    /\ Entered(key, "push", SelectedObject(heap, explorer_layouts[explorer_layout]), stack,
               Cache(heap, SelectedObject(heap, explorer_layouts[explorer_layout])))

\* The tail frame's node shown in a new ExplorerLayout.
PoppedAfresh(key, st) ==
    /\ stack' = st
    /\ cached_obj' = st.frames[Len(st.frames)].cached_obj
    /\ explorer_layout' = st.frames[Len(st.frames)].explorer_layout
    /\ overview_layout' = st.frames[Len(st.frames)].overview_layout
    /\ explorer_layouts' =
          [SubSeq(explorer_layouts, 1, Len(st.frames)) EXCEPT
              ![Len(st.frames)] = NewExplorerLayout(st.frames[Len(st.frames)].cached_obj)]
    /\ pushed_ui' = SubSeq(pushed_ui, 1, Len(st.frames) - 1)
    /\ HelpClosed
    /\ UNCHANGED <<nodevars, clientvars, filter_layout, overview_layouts>>
    /\ Noted("pop") /\ Redraw(key)

\* The stack popped, the node of the popped frame still current.
PoppedKeepsNode(key, st) ==
    /\ stack' = st
    /\ explorer_layout' = st.frames[Len(st.frames)].explorer_layout
    /\ overview_layout' = st.frames[Len(st.frames)].overview_layout
    /\ explorer_layouts' = SubSeq(explorer_layouts, 1, Len(st.frames))
    /\ pushed_ui' = SubSeq(pushed_ui, 1, Len(st.frames) - 1)
    /\ HelpClosed
    /\ UNCHANGED <<nodevars, clientvars, filter_layout, overview_layouts, cached_obj>>
    /\ Noted("pop") /\ Redraw(key)

\* Lines 185-189 on the stack st that stack.pop() left.
Popped(key, st) ==
    /\ stack' = st
    /\ cached_obj' = st.frames[Len(st.frames)].cached_obj
    /\ explorer_layout' = st.frames[Len(st.frames)].explorer_layout
    /\ overview_layout' = st.frames[Len(st.frames)].overview_layout
    /\ explorer_layouts' = SubSeq(explorer_layouts, 1, Len(st.frames))
    /\ pushed_ui' = SubSeq(pushed_ui, 1, Len(st.frames) - 1)
    /\ HelpClosed
    /\ UNCHANGED <<nodevars, clientvars, filter_layout, overview_layouts>>
    /\ Noted("pop") /\ Redraw(key)

\* Lines 185-189: back to the frame below.
Pop(key) ==
    /\ Passes(key) /\ key \in {"KEY_ESCAPE", "h", "KEY_LEFT"}
    /\ Popped(key, StackPop(stack))

\* Lines 191-195: g and G.
MoveEnd(key) ==
    /\ Passes(key) /\ key \in {"g", "G"}
    /\ explorer_layouts' =
          [explorer_layouts EXCEPT ![explorer_layout] =
              IF key = "g" THEN LayoutMoveTop(@) ELSE LayoutMoveBottom(heap, @)]
    /\ HelpClosed
    /\ UNCHANGED <<nodevars, clientvars, pushed_ui, cached_obj, explorer_layout,
                   overview_layout, stack, filter_layout, overview_layouts>>
    /\ Noted("move_end") /\ Redraw(key)

\* o and n show or hide their own view and leave the other as it is.
ToggleViewKeepsOther(key) ==
    /\ Passes(key) /\ key \in {"o", "n"}
    /\ IF key = "o"
       THEN /\ stack' = IF stack.visible THEN [stack EXCEPT !.visible = FALSE]
                        ELSE StackSetVisible(stack)
            /\ UNCHANGED filter_layout
       ELSE /\ filter_layout' = [filter_layout EXCEPT !.visible = ~@]
            /\ UNCHANGED stack
    /\ HelpClosed
    /\ UNCHANGED <<nodevars, clientvars, pushed_ui, cached_obj, explorer_layout,
                   overview_layout, explorer_layouts, overview_layouts>>
    /\ Noted("toggle_view") /\ Redraw(key)

\* Lines 199-215: show or hide the history view (o) or the filter view (n).
ToggleView(key) ==
    /\ Passes(key) /\ key \in {"o", "n"}
    /\ IF key = "o"
       THEN IF stack.visible
            THEN stack' = [stack EXCEPT !.visible = FALSE] /\ UNCHANGED filter_layout
            ELSE /\ stack' = StackSetVisible(stack)
                 /\ filter_layout' = [filter_layout EXCEPT !.visible = FALSE]
       ELSE IF filter_layout.visible
            THEN filter_layout' = [filter_layout EXCEPT !.visible = FALSE] /\ UNCHANGED stack
            ELSE /\ stack' = [stack EXCEPT !.visible = FALSE]
                 /\ filter_layout' = [filter_layout EXCEPT !.visible = TRUE]
    /\ HelpClosed
    /\ UNCHANGED <<nodevars, clientvars, pushed_ui, cached_obj, explorer_layout,
                   overview_layout, explorer_layouts, overview_layouts>>
    /\ Noted("toggle_view") /\ Redraw(key)

\* Lines 221-226: [ and ] switch between the public and the private view.
ToggleCollection(key) ==
    /\ Passes(key) /\ key \in {"[", "]"}
    /\ explorer_layouts' =
          [explorer_layouts EXCEPT ![explorer_layout].state =
              IF @ = "public" THEN "private" ELSE IF @ = "private" THEN "public" ELSE @]
    /\ HelpClosed
    /\ UNCHANGED <<nodevars, clientvars, pushed_ui, cached_obj, explorer_layout,
                   overview_layout, stack, filter_layout, overview_layouts>>
    /\ Noted("toggle_collection") /\ Redraw(key)

\* Lines 228-235: { and } switch the preview of a callable between repr and source.
TogglePreview(key) ==
    /\ Passes(key) /\ key \in {"{", "}"}
    /\ HelpClosed
    /\ UNCHANGED <<nodevars, clientvars, pushed_ui, cached_obj, explorer_layout,
                   overview_layout, stack, filter_layout, explorer_layouts>>
    /\ Noted("toggle_preview")
    /\ overview_layouts' =
          IF heap[SelectedObject(heap, explorer_layouts[explorer_layout])].is_callable
          THEN [overview_layouts EXCEPT ![overview_layout].preview_state =
                   IF @ = "repr" THEN "source" ELSE "repr"]
          ELSE overview_layouts
    /\ Redraw(key)

\* Lines 238-251: d and p switch the overview between all, docstring and value.
ToggleOverview(key) ==
    /\ Passes(key) /\ key \in {"d", "p"}
    /\ overview_layouts' =
          [overview_layouts EXCEPT ![overview_layout].state =
              IF key = "d" THEN (IF @ # "docstring" THEN "docstring" ELSE "all")
              ELSE (IF @ # "value" THEN "value" ELSE "all")]
    /\ HelpClosed
    /\ UNCHANGED <<nodevars, clientvars, pushed_ui, cached_obj, explorer_layout,
                   overview_layout, stack, filter_layout, explorer_layouts>>
    /\ Noted("toggle_overview") /\ Redraw(key)

\* Lines 254-293: f, i, I page the selected object; H (line 275) calls the
\* selected CachedObject, which is not callable.
Pager(key) ==
    /\ Passes(key) /\ key \in {"f", "i", "I", "H"}
    /\ HelpClosed
    /\ UNCHANGED <<nodevars, clientvars, pushed_ui, cached_obj, explorer_layout,
                   overview_layout, stack, filter_layout, explorer_layouts, overview_layouts>>
    /\ Noted("pager")
    /\ IF key = "H" THEN Crash("TypeError") ELSE Redraw(key)

\* Lines 298-299 and 80-81: r returns the selected object; the loop ends
\* when what was returned is true.
ReturnSelected(key) ==
    /\ Passes(key) /\ key = "r"
    /\ HelpClosed
    /\ UNCHANGED <<nodevars, clientvars, pushed_ui, cached_obj, explorer_layout,
                   overview_layout, stack, filter_layout, explorer_layouts, overview_layouts>>
    /\ Noted("return")
    /\ res' = Some(heap[SelectedObject(heap, explorer_layouts[explorer_layout])].obj)
    /\ status' = IF "falsy" \in World[res'.v].flags THEN "handled" ELSE "returned"
    /\ exc' = "none"

\* A key no branch tests (q and Q end the loop, line 73), or c without the
\* filter view.
Unbound(key) ==
    /\ Passes(key)
    /\ key \in UnboundKeys \/ (key = "c" /\ ~filter_layout.visible)
    /\ HelpClosed
    /\ UNCHANGED <<nodevars, clientvars, pushed_ui, cached_obj, explorer_layout,
                   overview_layout, stack, filter_layout, explorer_layouts, overview_layouts>>
    /\ Noted("unbound") /\ Redraw(key)

\* Explorer.process_key_event(key), lines 95-299.
ProcessKeyEvent(key) ==
    \/ KeyBreakpoint(key)
    \/ HelpClose(key)
    \/ HelpOwnKey(key)
    \/ HelpIgnores(key)
    \/ HelpOpen(key)
    \/ MoveCursor(key)
    \/ FilterToggle(key)
    \/ FilterClear(key)
    \/ StackSelectCurrent(key)
    \/ StackJump(key)
    \/ PushRefused(key)
    \/ Push(key)
    \/ Pop(key)
    \/ MoveEnd(key)
    \/ ToggleView(key)
    \/ ToggleCollection(key)
    \/ TogglePreview(key)
    \/ ToggleOverview(key)
    \/ Pager(key)
    \/ ReturnSelected(key)
    \/ Unbound(key)

Next ==
    \/ \E h \in Roots : Explore(h)
    \/ \E key \in Keys : ProcessKeyEvent(key)
    \/ Draw

Spec == Init /\ [][Next]_vars

\* ------------------------------------------- the loop, line by line
\* The terminal's resize signal runs Explorer.draw (lines 56-61) between any
\* two lines of the loop.  Here lines 173-182 and 185-189 are taken one
\* assignment at a time: status tells the line last run.
InLoop == {"running", "handled", "push_173", "push_174", "push_175",
           "pop_186", "pop_187", "pop_188"}

\* The message of the RuntimeError a print raises when draw() is entered
\* while it is printing (lines 85-86).
ReentrantCall == "RuntimeError: reentrant call inside <_io.BufferedWriter name='<stdout>'>"

\* Lines 83-91: the loop goes on after the re-entrant RuntimeError, every
\* other exception leaves it.
Raise(raised) ==
    IF raised = ReentrantCall
    THEN status' = "handled" /\ exc' = raised /\ UNCHANGED res
    ELSE Crash(raised)

\* Line 173 after lines 161-171: the new ExplorerLayout.
PushLine173(key) ==
    /\ PushKey(key) /\ ~stack.visible
    /\ is_selectable(heap[SelectedObject(heap, explorer_layouts[explorer_layout])].obj)
    /\ Len(stack.frames) < MaxDepth
    /\ Len(Cache(heap, SelectedObject(heap, explorer_layouts[explorer_layout])).heap)
          <= MaxNodes
    /\ explorer_layouts' =
          Append(explorer_layouts,
                 NewExplorerLayout(SelectedObject(heap, explorer_layouts[explorer_layout])))
    /\ explorer_layout' = Len(explorer_layouts) + 1
    /\ status' = "push_173"
    /\ HelpClosed
    /\ Noted("push_173")
    /\ UNCHANGED <<nodevars, clientvars, pushed_ui, res, exc, cached_obj, overview_layout,
                   stack, filter_layout, overview_layouts>>

\* Line 174: the current node.
PushLine174 ==
    /\ status = "push_173"
    /\ cached_obj' = explorer_layouts[explorer_layout].cached_obj
    /\ status' = "push_174"
    /\ UNCHANGED <<nodevars, clientvars, pushed_ui, res, exc, event, explorer_layout,
                   overview_layout, stack, help_layout, filter_layout, explorer_layouts,
                   overview_layouts>>

\* Line 175, the cache pass ending as r.
PushCached(r) ==
    /\ heap' = r.heap
    /\ cached' = IF r.exc = "none" THEN cached \cup {cached_obj} ELSE cached
    /\ UNCHANGED <<clientvars, pushed_ui, event, uivars>>
    /\ IF r.exc # "none" THEN Crash(r.exc)
       ELSE status' = "push_175" /\ UNCHANGED <<res, exc>>

\* Line 175: self.cached_obj.cache()
PushLine175 ==
    /\ status = "push_174"
    /\ PushCached(Cache(heap, cached_obj))

\* Lines 176-182: the new frame; process_key_event returns.
PushLine176 ==
    /\ status = "push_175"
    /\ stack' = [stack EXCEPT !.frames =
                     Append(@, StackFrame(cached_obj, explorer_layout, overview_layout))]
    /\ UNCHANGED <<nodevars, clientvars, pushed_ui, cached_obj, explorer_layout,
                   overview_layout, help_layout, filter_layout, explorer_layouts,
                   overview_layouts>>
    /\ Noted("push") /\ Redraw("")

\* Line 186 after line 185: self.stack.pop()
PopLine186(key) ==
    /\ Passes(key) /\ key \in {"KEY_ESCAPE", "h", "KEY_LEFT"}
    /\ stack' = StackPop(stack)
    /\ status' = "pop_186"
    /\ HelpClosed
    /\ Noted("pop_186")
    /\ UNCHANGED <<nodevars, clientvars, pushed_ui, res, exc, cached_obj, explorer_layout,
                   overview_layout, filter_layout, explorer_layouts, overview_layouts>>

\* Line 187: the current node.
PopLine187 ==
    /\ status = "pop_186"
    /\ cached_obj' = stack.frames[Len(stack.frames)].cached_obj
    /\ status' = "pop_187"
    /\ UNCHANGED <<nodevars, clientvars, pushed_ui, res, exc, event, explorer_layout,
                   overview_layout, stack, help_layout, filter_layout, explorer_layouts,
                   overview_layouts>>

\* Line 188: the current explorer layout.
PopLine188 ==
    /\ status = "pop_187"
    /\ explorer_layout' = stack.frames[Len(stack.frames)].explorer_layout
    /\ status' = "pop_188"
    /\ UNCHANGED <<nodevars, clientvars, pushed_ui, res, exc, event, cached_obj,
                   overview_layout, stack, help_layout, filter_layout, explorer_layouts,
                   overview_layouts>>

\* Line 189: the current overview layout; process_key_event returns and
\* the popped frame's layout is no longer referred to.
PopLine189 ==
    /\ status = "pop_188"
    /\ overview_layout' = stack.frames[Len(stack.frames)].overview_layout
    /\ explorer_layouts' = SubSeq(explorer_layouts, 1, Len(stack.frames))
    /\ UNCHANGED <<nodevars, clientvars, pushed_ui, cached_obj, explorer_layout,
                   stack, help_layout, filter_layout, overview_layouts>>
    /\ Noted("pop") /\ Redraw("")

\* The resize signal between two lines: the handler runs draw() (lines
\* 335-356), which reads the state as it is and, when it raises, raises in
\* the code it interrupted.
Resize ==
    /\ status \in InLoop
    /\ Noted("resize")
    /\ UNCHANGED <<nodevars, clientvars, pushed_ui, uivars>>
    /\ IF DrawRaises THEN Raise("IndexError") ELSE UNCHANGED <<status, res, exc>>

\* The resize signal while line 75 is printing: the handler's draw() raises
\* the re-entrant RuntimeError into the draw it interrupted.
ResizeDuringDraw ==
    /\ status = "handled"
    /\ Noted("resize_reentrant")
    /\ UNCHANGED <<nodevars, clientvars, pushed_ui, uivars>>
    /\ Raise(ReentrantCall)

NextResize ==
    \/ \E h \in Roots : Explore(h)
    \/ Draw
    \/ \E key \in Keys : MoveCursor(key)
    \/ \E key \in Keys : ToggleCollection(key)
    \/ \E key \in Keys : Pager(key)
    \/ \E key \in Keys : PushLine173(key)
    \/ PushLine174
    \/ PushLine175
    \/ PushLine176
    \/ \E key \in Keys : PopLine186(key)
    \/ PopLine187
    \/ PopLine188
    \/ PopLine189
    \/ Resize
    \/ ResizeDuringDraw

SpecResize == Init /\ [][NextResize]_vars

\* ------------------------------------------------------------ properties
\* a is b with some elements left out, the rest in b's order.
RECURSIVE IsSubsequence(_, _)
IsSubsequence(a, b) ==
    IF a = <<>> THEN TRUE
    ELSE IF b = <<>> THEN FALSE
    ELSE IF Head(a) = Head(b) THEN IsSubsequence(Tail(a), Tail(b))
    ELSE IsSubsequence(a, Tail(b))

Range(f) == {f[i] : i \in DOMAIN f}

\* A container view as the <<key, object>> pairs its children wrap.
EntryObjects(hp, view) == [i \in 1..Len(view) |-> <<view[i][1], hp[view[i][2]].obj>>]
\* The <<index, element>> pairs of a list, tuple or set.
IndexedElems(h) == [i \in 1..Len(World[h].elems) |-> <<IntKey(i - 1), World[h].elems[i]>>]

\* Some predicate of the list fs is true of an object with these flags.
SomePredicateTrue(fs, is_callable, isclass) ==
    \/ "callable" \in Range(fs) /\ is_callable
    \/ "class" \in Range(fs) /\ isclass

\* What C1, C2 and C10 call the state of the current frame and of the stack.
framevars == <<stack, cached_obj, explorer_layout, overview_layout,
               explorer_layouts, overview_layouts>>

\* C1: a pop that takes a pushed frame off the stack makes the frame below
\* current with the cursor index, the collection and the preview mode it had
\* when the push was made, whatever was changed while the child was current.
C1_PopRestoresStateAtPush ==
    [][(event'.what = "pop" /\ Len(stack.frames) > 1
            /\ pushed_ui[Len(pushed_ui)].some) =>
          /\ stack'.frames = SubSeq(stack.frames, 1, Len(stack.frames) - 1)
          /\ cached_obj' = stack.frames[Len(stack.frames) - 1].cached_obj
          /\ CurrentUI' = pushed_ui[Len(pushed_ui)].v
      ]_vars

\* C2: a pop key pressed while the stack holds the root frame alone leaves
\* the stack, the current node, the layouts and the nodes as they are, and
\* raises nothing: process_key_event returns and the next draw succeeds.
C2_PopAtRootChangesNothing ==
    [][(event'.what = "pop" /\ Len(stack.frames) = 1) =>
          /\ UNCHANGED <<framevars, nodevars>>
          /\ Len(stack'.frames) = 1
          /\ status' = "handled" /\ exc' = "none"
          /\ ~DrawRaises'
      ]_vars

\* C2 witness: a pop key has been handled at the root, the cursor off the
\* first entry.
C2_Witness ==
    /\ event.what = "pop" /\ event.depth = 1
    /\ explorer_layouts[explorer_layout].index > 0

\* C10: a push key pressed in the explorer view on a child that is not
\* selectable leaves the stack, the current node, the explorer and overview
\* layouts and the nodes as they are, and raises nothing.
C10_PushOfUnselectableChangesNothing ==
    [][(event'.what = "push_refused") =>
          /\ UNCHANGED <<framevars, nodevars>>
          /\ status' = "handled" /\ exc' = "none"
          /\ ~DrawRaises'
      ]_vars

\* C10 witness: a push key has been handled with the cursor on a child that
\* is not selectable.
C10_Witness ==
    /\ event.what = "push_refused"
    /\ ~is_selectable(heap[SelectedObject(heap, explorer_layouts[explorer_layout])].obj)

\* The UI state of a frame that has just been made.
FreshUI == [index |-> 0, state |-> "public", preview_state |-> "repr"]

\* C11: a push that returns appends one frame to the stack, and the frame
\* it makes current has the cursor on the first entry, the public
\* collection and the repr preview, whatever the frame pushed from had.
C11_PushMakesFreshFrame ==
    [][(event'.what = "push" /\ status' = "handled") =>
          /\ stack'.frames # stack.frames
          /\ SubSeq(stack'.frames, 1, Len(stack.frames)) = stack.frames
          /\ Len(stack'.frames) = Len(stack.frames) + 1
          /\ CurrentUI' = FreshUI
      ]_vars

\* C12: choosing in the history view a frame below the current one leaves
\* the stack cut down to that frame, and the frame current with the cursor
\* and the collection it had when it was last current.
C12_JumpCutsStackToFrame ==
    [][(event'.what = "jump" /\ status' = "handled") =>
          /\ Len(stack'.frames) = stack.index + 1
          /\ cached_obj' = stack.frames[stack.index + 1].cached_obj
          /\ explorer_layouts'[explorer_layout'] =
                explorer_layouts[stack.frames[stack.index + 1].explorer_layout]
      ]_vars

\* C13: choosing in the history view the frame of the current node changes
\* neither the stack, the current node, the explorer and overview layouts,
\* the nodes, nor which of the history, filter and help views are shown.
C13_SelectCurrentChangesNothing ==
    [][(event'.what = "select_current") =>
          /\ UNCHANGED <<uivars, nodevars>>
          /\ status' = "handled" /\ exc' = "none"
      ]_vars

\* C13 witness: the current node's frame has been chosen in the history
\* view of a stack of two frames.
C13_Witness ==
    /\ event.what = "select_current" /\ event.depth = 2
    /\ stack.visible /\ stack.index = 1

\* C14: [ or ] switches the current frame between the public and the
\* private collection and puts the cursor on entry 0 of the new one.
C14_ToggleCollectionResetsCursor ==
    [][(event'.what = "toggle_collection") =>
          /\ explorer_layouts'[explorer_layout].state =
                (IF explorer_layouts[explorer_layout].state = "public"
                 THEN "private" ELSE "public")
          /\ explorer_layouts'[explorer_layout].index = 0
      ]_vars

\* The text of a key or index between the brackets of a dotpath.
KeyLabel(k) == IF k.kt = "str" THEN T_quote \o k.ks \o T_quote ELSE str_int(k.ki)
\* The names of a mapping are in ascending order.
KeysAscend(d) == \A i \in 1..Len(d) - 1 : StrLess(d[i][1], d[i + 1][1])

\* C15: cache() on the node of a dict (list, tuple, set) returns, and with no
\* filter set the dict (list) view holds one child per item (element), in
\* the object's order, whatever the keys and the values are.
C15_ContainerEntriesOnePerItem ==
    (last.op = "cache"
        /\ World[heap[last.n].obj].type \in {"dict", "list", "tuple", "set"}) =>
        /\ exc = "none"
        /\ heap[last.n].filters = <<>> =>
              /\ EntryObjects(heap, heap[last.n].filtered_dict) = World[heap[last.n].obj].items
              /\ EntryObjects(heap, heap[last.n].filtered_list) = IndexedElems(heap[last.n].obj)

\* C16: the dotpath of a root is the name it was given; the dotpath of a
\* member child is its parent's dotpath, a dot and the member's name; the
\* dotpath of a dict or list entry is its parent's dotpath and the key or
\* index in brackets.
C16_DotpathExtendsParent ==
    /\ (last.op = "create" /\ exc = "none") => heap[1].dotpath = T_app
    /\ \A n \in 1..Len(heap) :
          /\ \A i \in 1..Len(heap[n].public_attributes) :
                heap[heap[n].public_attributes[i][2]].dotpath =
                    heap[n].dotpath \o T_dot \o heap[n].public_attributes[i][1]
          /\ \A i \in 1..Len(heap[n].private_attributes) :
                heap[heap[n].private_attributes[i][2]].dotpath =
                    heap[n].dotpath \o T_dot \o heap[n].private_attributes[i][1]
          /\ \A i \in 1..Len(heap[n].filtered_dict) :
                heap[heap[n].filtered_dict[i][2]].dotpath =
                    heap[n].dotpath \o T_lbracket
                        \o KeyLabel(heap[n].filtered_dict[i][1]) \o T_rbracket
          /\ \A i \in 1..Len(heap[n].filtered_list) :
                heap[heap[n].filtered_list[i][2]].dotpath =
                    heap[n].dotpath \o T_lbracket
                        \o KeyLabel(heap[n].filtered_list[i][1]) \o T_rbracket

\* C17: after cache() has returned on a node, every name dir() lists for its
\* object, the weak-reference slot apart, is a key of the private mapping
\* when it starts with an underscore and of the public mapping when it does
\* not, and of that one only; the slot is a key of neither; the mappings
\* hold no other key; the keys of each are in ascending order.
C17_MembersPartitionedAndSorted ==
    (last.op = "cache" /\ exc = "none") =>
        LET node == heap[last.n]
            names == dir(node.obj)
        IN /\ \A i \in 1..Len(names) :
                 /\ DictHas(node.private_attributes, names[i])
                       <=> (names[i] # T_weakref /\ StartsWithUnderscore(names[i]))
                 /\ DictHas(node.public_attributes, names[i])
                       <=> (names[i] # T_weakref /\ ~StartsWithUnderscore(names[i]))
           /\ \A i \in 1..Len(node.public_attributes) :
                 InList(names, node.public_attributes[i][1])
           /\ \A i \in 1..Len(node.private_attributes) :
                 InList(names, node.private_attributes[i][1])
           /\ KeysAscend(node.public_attributes)
           /\ KeysAscend(node.private_attributes)

\* C17 witness: cache() has returned on the node of an object that has the
\* weak-reference slot, two private and three public members.
C17_Witness ==
    /\ last.op = "cache" /\ exc = "none"
    /\ InList(dir(heap[last.n].obj), T_weakref)
    /\ Len(heap[last.n].private_attributes) = 2
    /\ Len(heap[last.n].public_attributes) = 3

\* C19: a set_filters() call on a node leaves every other node as it was,
\* its filters and its views included, and a node constructed by the call
\* has no filter.
C19_SetFiltersTouchesOneNode ==
    [][(last'.op = "set_filters") =>
          /\ \A m \in 1..Len(heap) : m # last'.n => heap'[m] = heap[m]
          /\ \A m \in (Len(heap) + 1)..Len(heap') : heap'[m].filters = <<>>
      ]_vars

\* C19 witness: filters have been set on a member child of a node that has
\* other children and filters of its own.
C19_Witness ==
    /\ last.op = "set_filters" /\ exc = "none"
    /\ heap[last.n].filters # <<>>
    /\ \E m \in 1..Len(heap) :
          /\ \E i \in 1..Len(heap[m].public_attributes) :
                heap[m].public_attributes[i][2] = last.n
          /\ Len(heap[m].public_attributes) > 1
          /\ heap[m].filters # <<>>
          /\ heap[m].filters # heap[last.n].filters

\* C18: an exception raised while the loop draws or handles a key does not
\* leave explore(obj): it is reported and explore(obj) returns None; the
\* re-entrant RuntimeError alone is passed over, the loop going on.
C18_ExceptionsAreReported ==
    /\ status # "raised"
    /\ exc # "none" =>
          IF exc = ReentrantCall THEN status = "handled"
          ELSE status = "crashed" /\ res = NoneVal

\* C18 witness: an exception raised by the handling of a key, two frames
\* deep in a push, has been reported.
C18_Witness ==
    /\ status = "crashed" /\ exc = "AttributeError"
    /\ event.what = "push_173"

\* C20: a draw run by the resize signal changes no node, no filter, no
\* layout and not the stack, and the explorer layout it reads is the
\* layout of the node that is current.
C20_ResizeDrawReadsOneFrame ==
    [][(event'.what = "resize") =>
          /\ UNCHANGED <<nodevars, uivars>>
          /\ explorer_layouts[explorer_layout].cached_obj = cached_obj
      ]_vars

\* C3: a cache() call on a node on which cache() has already returned leaves
\* the public and the private member mapping as they were: the same names,
\* bound to the same child nodes, with no node constructed for a member.
C3_CacheTwiceKeepsMembers ==
    [][\A n \in cached :
        (last'.op = "cache" /\ last'.n = n) =>
            /\ heap'[n].public_attributes = heap[n].public_attributes
            /\ heap'[n].private_attributes = heap[n].private_attributes
            /\ \A i \in 1..Len(heap[n].public_attributes) :
                  heap'[heap[n].public_attributes[i][2]] = heap[heap[n].public_attributes[i][2]]
            /\ \A i \in 1..Len(heap[n].private_attributes) :
                  heap'[heap[n].private_attributes[i][2]] = heap[heap[n].private_attributes[i][2]]
      ]_vars

\* C3 witness: cache() has returned a second time on a node that has public
\* members and no private member.
C3_Witness ==
    /\ last.op = "cache" /\ last.was_cached /\ exc = "none"
    /\ heap[last.n].public_attributes # <<>>
    /\ heap[last.n].private_attributes = <<>>

\* C4: once cache() has returned on a node, a later cache() or set_filters()
\* on it constructs no node and keeps, for every container entry still in
\* the view, the child node the entry had.
C4_ContainerEntriesBuiltOnce ==
    [][\A n \in cached :
        (last'.n = n /\ last'.op \in {"cache", "set_filters"} /\ exc' = "none") =>
            /\ Len(heap') = Len(heap)
            /\ \A i \in 1..Len(heap'[n].filtered_dict) :
               \A j \in 1..Len(heap[n].filtered_dict) :
                  heap'[n].filtered_dict[i][1] = heap[n].filtered_dict[j][1]
                      => heap'[n].filtered_dict[i][2] = heap[n].filtered_dict[j][2]
            /\ \A i \in 1..Len(heap'[n].filtered_list) :
               \A j \in 1..Len(heap[n].filtered_list) :
                  heap'[n].filtered_list[i][1] = heap[n].filtered_list[j][1]
                      => heap'[n].filtered_list[i][2] = heap[n].filtered_list[j][2]
      ]_vars

\* C5: after cache() or set_filters() has returned on a node whose filter
\* list is not empty, a public member, a private member, a dict item, a
\* list element is in its filtered view exactly when some filter of the list
\* is true of its child (one is enough).
C5_FilterKeepsWhatAnyPredicateAccepts ==
    (last.op \in {"cache", "set_filters"} /\ exc = "none" /\ heap[last.n].filters # <<>>) =>
        LET node == heap[last.n]
            fs == node.filters
            OfNode(c) == SomePredicateTrue(fs, heap[c].is_callable, heap[c].isclass)
            OfObj(h) == SomePredicateTrue(fs, "callable" \in World[h].flags,
                                          "isclass" \in World[h].flags)
        IN /\ \A i \in 1..Len(node.public_attributes) :
                 InList(FilteredPublic(node), node.public_attributes[i])
                     <=> OfNode(node.public_attributes[i][2])
           /\ \A i \in 1..Len(node.private_attributes) :
                 InList(FilteredPrivate(node), node.private_attributes[i])
                     <=> OfNode(node.private_attributes[i][2])
           /\ World[node.obj].type = "dict" =>
                 \A i \in 1..Len(World[node.obj].items) :
                     InList(EntryObjects(heap, node.filtered_dict), World[node.obj].items[i])
                         <=> OfObj(World[node.obj].items[i][2])
           /\ World[node.obj].type \in {"list", "tuple", "set"} =>
                 \A i \in 1..Len(World[node.obj].elems) :
                     InList(EntryObjects(heap, node.filtered_list), IndexedElems(node.obj)[i])
                         <=> OfObj(World[node.obj].elems[i])
           /\ \A i \in 1..Len(node.filtered_dict) :
                 OfNode(node.filtered_dict[i][2])
           /\ \A i \in 1..Len(node.filtered_list) :
                 OfNode(node.filtered_list[i][2])

\* C5 witness: two filters are active on a node; the public view holds a
\* child only one of them accepts and leaves out a child none accepts.
C5_Witness ==
    /\ last.op \in {"cache", "set_filters"} /\ exc = "none"
    /\ Len(heap[last.n].filters) = 2
    /\ \E i \in 1..Len(FilteredPublic(heap[last.n])) :
          LET c == heap[FilteredPublic(heap[last.n])[i][2]] IN c.is_callable /\ ~c.isclass
    /\ Len(FilteredPublic(heap[last.n])) < Len(heap[last.n].public_attributes)

FailingMembers(h) ==
    {World[h].members[i][1] : i \in {j \in 1..Len(World[h].members) :
                                        World[h].members[j][2] = GetattrFails}}

\* C8: cache() on a node whose object has a member that cannot be fetched
\* returns; the member is in no mapping and in no view, and every other
\* member dir() lists (the weak-reference slot apart) is in a mapping.
C8_CacheSkipsMemberThatCannotBeFetched ==
    (last.op = "cache" /\ FailingMembers(heap[last.n].obj) # {}) =>
        /\ exc = "none"
        /\ \A i \in 1..Len(World[heap[last.n].obj].members) :
              LET name == World[heap[last.n].obj].members[i][1] IN
              name # T_weakref =>
                 ((DictHas(heap[last.n].public_attributes, name)
                      \/ DictHas(heap[last.n].private_attributes, name))
                   <=> name \notin FailingMembers(heap[last.n].obj))

\* C9: constructing the root node of an object returns whatever display
\* field cannot be retrieved: the node exists, its length is absent when
\* len() raised and its source empty when getsource() raised.
C9_ConstructorSurvivesFieldFailure ==
    (last.op = "create") =>
        /\ exc = "none"
        /\ Len(heap) = 1
        /\ (World[last.n].len < 0 => ~heap[1].length.some)
        /\ ("source" \in World[last.n].raises => heap[1].source = <<>>)

\* ------------------------------------------------------ shallow caching
\* The objects getattr(), dict.items() and enumerate() hand out for obj.
ChildObjects(h) ==
    Range(DictValues(World[h].members)) \cup Range(DictValues(World[h].items))
        \cup Range(World[h].elems)

\* A node none of whose members or container entries has been made.
Bare(node) ==
    /\ node.public_attributes = <<>> /\ node.private_attributes = <<>>
    /\ node.filtered_public_attributes = <<>> /\ node.filtered_private_attributes = <<>>
    /\ node.cached_dict = <<>> /\ node.cached_list = <<>>
    /\ node.filtered_dict = <<>> /\ node.filtered_list = <<>>

\* The node a step of the explorer caches or filters.
NodeWorkedOn == IF event'.what = "init" THEN 1 ELSE cached_obj'

\* C21: a step of the explorer makes nodes only for the current node and
\* for the members, items and elements of its object, leaves each of those
\* without members or entries of its own, and changes no other node; and a
\* push into a child that wraps the object of a frame on the stack makes
\* current a node that no frame holds, with a longer dotpath that starts
\* with the parent's, on a stack one frame deeper.
C21_CacheIsShallow ==
    [][/\ \A m \in 1..Len(heap') :
            m # NodeWorkedOn =>
                IF m <= Len(heap) THEN heap'[m] = heap[m]
                ELSE /\ Bare(heap'[m])
                     /\ heap'[m].obj \in ChildObjects(heap'[NodeWorkedOn].obj)
       /\ (/\ event'.what = "push" /\ exc' = "none"
           /\ \E f \in 1..Len(stack.frames) :
                 heap[stack.frames[f].cached_obj].obj = heap'[cached_obj'].obj)
          => /\ \A f \in 1..Len(stack.frames) : stack.frames[f].cached_obj # cached_obj'
             /\ Len(stack'.frames) = Len(stack.frames) + 1
             /\ stack'.frames[Len(stack'.frames)].cached_obj = cached_obj'
             /\ Len(heap'[cached_obj'].dotpath) > Len(heap[cached_obj].dotpath)
             /\ SubSeq(heap'[cached_obj'].dotpath, 1, Len(heap[cached_obj].dotpath))
                   = heap[cached_obj].dotpath
      ]_vars

\* C21 witness: a push has made current a node that wraps the same object
\* as the node of a frame below, and cached it.
C21_Witness ==
    /\ event.what = "push" /\ exc = "none"
    /\ cached_obj \in cached
    /\ \E f \in 1..(Len(stack.frames) - 1) :
          /\ heap[stack.frames[f].cached_obj].obj = heap[cached_obj].obj
          /\ stack.frames[f].cached_obj # cached_obj
    /\ \E m \in 1..Len(heap) : ~(m \in cached) /\ heap[m].obj = heap[cached_obj].obj

\* ------------------------------------------------- cursor under filters
\* C22: after the predicates of the current node have been toggled or
\* cleared, the cursor of the current frame is on an entry of the active
\* filtered collection, or on position 0 when that collection is empty.
C22_FilterKeepsCursorInRange ==
    (event.what \in {"filter_toggle", "filter_clear"} /\ exc = "none") =>
        IF ActiveCollection(heap, explorer_layouts[explorer_layout]) = <<>>
        THEN explorer_layouts[explorer_layout].index = 0
        ELSE explorer_layouts[explorer_layout].index
                < Len(ActiveCollection(heap, explorer_layouts[explorer_layout]))

\* ------------------------------------------------------- the return key
\* C23: the key event of r ends the loop with the selected object as the
\* value explore() returns, whatever that object is; and the loop has ended
\* with a value other than None only by the key r.
C23_ReturnKeyEndsLoop ==
    /\ event.what = "return" =>
          /\ status = "returned"
          /\ res = Some(heap[SelectedObject(heap, explorer_layouts[explorer_layout])].obj)
    /\ (status \in {"quit", "returned", "crashed"} /\ res.some) => event.what = "return"

\* ---------------------------------------------------- the current frame
\* C24: whenever the loop is between two key events, the current node and
\* the current explorer layout are those of the last frame of the stack.
C24_CurrentIsTailFrame ==
    status \in {"running", "handled"} =>
        /\ stack.frames # <<>>
        /\ stack.frames[Len(stack.frames)].cached_obj = cached_obj
        /\ stack.frames[Len(stack.frames)].explorer_layout = explorer_layout
        /\ explorer_layouts[explorer_layout].cached_obj = cached_obj

\* C24 witness: a pop from a frame two deep, or a jump in the history view,
\* has just been handled.
C24_Witness ==
    /\ status = "handled"
    /\ \/ event.what = "pop" /\ event.depth = 2 /\ Len(stack.frames) = 1
       \/ event.what = "jump" /\ event.depth = 2

\* ------------------------------------------------------------ the views
\* C25: the history view and the filter view are never shown together.
C25_OneSideViewAtATime == ~(stack.visible /\ filter_layout.visible)

\* C25 witness: n has shown the filter view on a stack two deep whose
\* history cursor was moved to the root frame while the history view was
\* shown.
C25_Witness ==
    /\ event.what = "toggle_view"
    /\ filter_layout.visible /\ ~stack.visible
    /\ Len(stack.frames) = 2 /\ stack.index = 0

\* -------------------------------------------------------- the help page
\* What j, k, o, n, Up and Down do to the history view, the filter view and
\* the cursor when the help page is not shown.
NormalEffect(key) ==
    <<stack', filter_layout', explorer_layouts'>> =
        CASE key \in {"k", "KEY_UP"} ->
                IF stack.visible
                THEN <<StackMoveUp(stack), filter_layout, explorer_layouts>>
                ELSE IF filter_layout.visible
                THEN <<stack, FilterMoveUp(filter_layout), explorer_layouts>>
                ELSE <<stack, filter_layout,
                       [explorer_layouts EXCEPT ![explorer_layout] = LayoutMoveUp(@)]>>
          [] key \in {"j", "KEY_DOWN"} ->
                IF stack.visible
                THEN <<StackMoveDown(stack), filter_layout, explorer_layouts>>
                ELSE IF filter_layout.visible
                THEN <<stack, FilterMoveDown(filter_layout), explorer_layouts>>
                ELSE <<stack, filter_layout,
                       [explorer_layouts EXCEPT ![explorer_layout] = LayoutMoveDown(heap, @)]>>
          [] key = "o" ->
                IF stack.visible
                THEN <<[stack EXCEPT !.visible = FALSE], filter_layout, explorer_layouts>>
                ELSE <<StackSetVisible(stack), [filter_layout EXCEPT !.visible = FALSE],
                       explorer_layouts>>
          [] OTHER ->
                IF filter_layout.visible
                THEN <<stack, [filter_layout EXCEPT !.visible = FALSE], explorer_layouts>>
                ELSE <<[stack EXCEPT !.visible = FALSE],
                       [filter_layout EXCEPT !.visible = TRUE], explorer_layouts>>

\* C26: with the help page shown, the key event of a key other than ?,
\* Escape, f, {, }, [, ], j, k, o, n, Up, Down and b changes neither a node,
\* the stack, the current node and layouts, a cursor, a collection, the
\* filters, the overview nor which views are shown; and the key event of j,
\* k, o, n, Up or Down hides the help page and does what the key does when
\* the help page is not shown.
C26_HelpPageSwallowsKeys ==
    [][(status = "running" /\ help_layout.visible) =>
       /\ \A key \in {"j", "k", "o", "n", "KEY_UP", "KEY_DOWN"} :
             \/ /\ help_layout' = [help_layout EXCEPT !.visible = FALSE]
                /\ NormalEffect(key)
                /\ UNCHANGED <<nodevars, cached_obj, explorer_layout, overview_layout,
                               overview_layouts>>
                /\ exc' = "none" /\ res' = NoneVal
             \/ ~ProcessKeyEvent(key)
       /\ \/ /\ UNCHANGED <<nodevars, uivars>>
             /\ exc' = "none" /\ res' = NoneVal
          \/ \A key \in Keys \ {"?", "KEY_ESCAPE", "f", "{", "}", "[", "]", "b",
                                 "j", "k", "o", "n", "KEY_UP", "KEY_DOWN"} :
                ~ProcessKeyEvent(key)
      ]_vars

\* C26 witness: with the help page shown over a stack two deep, a key the
\* help page does not know has been handled.
C26_Witness ==
    /\ event.what = "help_ignored"
    /\ help_layout.visible
    /\ Len(stack.frames) = 2

====
